---------------------------- MODULE Spec2Model ----------------------------
(***************************************************************************)
(* HDSAviz/data_processing.py: the readers of the sensitivity analysis     *)
(* files (get_sa) and of the companion csv files (read_file, get_params,   *)
(* get_results).                                                           *)
(*                                                                         *)
(* Text is modelled as it is on disk.  In the analysis files a cell is a   *)
(* sequence of characters (file names and parameter names are rewritten    *)
(* character by character by the code), a line is the sequence of its      *)
(* space separated cells, the line "\n" is the empty sequence, and a file  *)
(* is the sequence of its lines.  Numbers are decimal numerals; Num reads  *)
(* them.                                                                   *)
(***************************************************************************)
EXTENDS Integers, Sequences, FiniteSets, TLC

VARIABLES
    dirExists,   \* whether `path` names a directory that can be listed
    disk,        \* the directory: file name -> [readable, lines]
    pc,          \* position of get_sa
    filenames,   \* get_sa's list `filenames` (names are distinct)
    todo,        \* the part of `filenames` the for loop has not reached
    idx,         \* the index enumerate(filenames) hands to `i`
    filename,    \* loop variable
    name,        \* the output measure derived from `filename`
    contents,    \* contents[0]: the lines of the open file
    i,           \* the line number found by the scan (False is 0)
    sens,        \* the dictionary under construction
    result,      \* what the caller of get_sa holds
    err,         \* the exception that left get_sa, "" when none
    opened,      \* the files get_sa has opened so far
    rf_pc,       \* position of read_file
    rf_file,     \* the lines of the csv file at `path`
    rf_numrows,  \* read_file's argument numrows
    rf_drop,     \* read_file's argument drop
    rf_df,       \* read_file's dataframe
    rf_entry,    \* the function the caller called
    rf_result    \* what the caller of read_file holds

saVars == <<dirExists, disk, pc, filenames, todo, idx, filename, name,
            contents, i, sens, result, err, opened>>
rfVars == <<rf_pc, rf_file, rf_numrows, rf_drop, rf_df, rf_entry, rf_result>>
vars == <<saVars, rfVars>>

---------------------------------------------------------------------------
(* Bounds *)

\* other files beside the two excluded ones in a directory
MaxFiles == 2
\* data rows of the first/total order block
MaxRows1 == 3
\* data rows of the second order block
MaxRows2 == 2
\* characters of a parameter name
MaxNameLen == 4
\* data rows of a csv file
MaxCsvRows == 2

---------------------------------------------------------------------------
(* Text *)

RECURSIVE StartsWith(_, _)
StartsWith(s, p) ==
    IF p = <<>> THEN TRUE
    ELSE IF s = <<>> THEN FALSE
    ELSE s[1] = p[1] /\ StartsWith(Tail(s), Tail(p))

\* s[n:]
DropFirst(s, n) == IF n >= Len(s) THEN <<>> ELSE SubSeq(s, n + 1, Len(s))

\* re.IGNORECASE on the letters of the pattern
ToLower(c) ==
    CASE c = "R" -> "r"
      [] c = "X" -> "x"
      [] c = "N" -> "n"
      [] OTHER -> c

LowerSeq(s) == [k \in 1..Len(s) |-> ToLower(s[k])]

MatchAt(s, p, ci) ==
    IF ci THEN StartsWith(LowerSeq(s), LowerSeq(p)) ELSE StartsWith(s, p)

\* str.replace / Series.str.replace: every non-overlapping occurrence of a
\* non-empty pattern, leftmost first
RECURSIVE ReplaceAll(_, _, _, _)
ReplaceAll(s, p, r, ci) ==
    IF Len(s) < Len(p) THEN s
    ELSE IF MatchAt(s, p, ci)
         THEN r \o ReplaceAll(DropFirst(s, Len(p)), p, r, ci)
         ELSE <<s[1]>> \o ReplaceAll(Tail(s), p, r, ci)

Contains(s, p, ci) == \E k \in 0..Len(s) : MatchAt(DropFirst(s, k), p, ci)

Digit(c) ==
    CASE c = "0" -> 0
      [] c = "1" -> 1
      [] c = "2" -> 2
      [] OTHER -> 0

\* the number a numeral cell holds
Num(cell) == IF cell[1] = "-" THEN 0 - Digit(cell[2]) ELSE Digit(cell[1])

Zero == <<"0">>

SeqsUpTo(S, n) == UNION {[1..k -> S] : k \in 0..n}

---------------------------------------------------------------------------
(* pandas *)

NoFrame == [isDataFrame |-> FALSE]

\* the value of nrows=None
NoLimit == -1

Blank == <<>>

Min(a, b) == IF a < b THEN a ELSE b

\* the lines read_csv sees: the first `skiprows` lines are skipped, then the
\* blank lines (skip_blank_lines defaults to True)
CsvLines(lines, skiprows) ==
    SelectSeq(DropFirst(lines, skiprows), LAMBDA l : l # Blank)

\* read_csv raises EmptyDataError when no line is left for the header
CsvEmpty(lines, skiprows) == CsvLines(lines, skiprows) = <<>>

\* the value read_csv gives a field that a short line lacks
NaN == <<"N", "a", "N">>

\* pd.read_csv(path, sep, skiprows, nrows): the first line left is the
\* header, the next `nrows` lines (all with nrows=None) are the rows; a line
\* with fewer fields than the header is filled up with NaN (no file here has
\* a line with more)
ReadCsv(lines, skiprows, nrows) ==
    LET ls == CsvLines(lines, skiprows)
        data == Tail(ls)
        n == IF nrows = NoLimit THEN Len(data) ELSE Min(nrows, Len(data))
    IN [isDataFrame |-> TRUE,
        columns |-> Head(ls),
        rows |-> [j \in 1..n |->
                    [k \in 1..Len(Head(ls)) |->
                        IF k <= Len(data[j]) THEN data[j][k] ELSE NaN]]]

HasCol(df, c) == \E k \in 1..Len(df.columns) : df.columns[k] = c

ColIndex(df, c) == CHOOSE k \in 1..Len(df.columns) : df.columns[k] = c

\* df[c] as a sequence
Column(df, c) == [j \in 1..Len(df.rows) |-> df.rows[j][ColIndex(df, c)]]

\* df with the values of column c replaced by the sequence vals
SetCol(df, c, vals) ==
    [df EXCEPT !.rows =
        [j \in 1..Len(df.rows) |->
            [k \in 1..Len(df.columns) |->
                IF k = ColIndex(df, c) THEN vals[j] ELSE df.rows[j][k]]]]

---------------------------------------------------------------------------
(* get_sa: names *)

\* 'analysis_light_aromatic-C-C.txt'
ExclCC ==
    <<"a", "n", "a", "l", "y", "s", "i", "s", "_", "l", "i", "g", "h", "t", "_", "a", "r", "o", "m", "a", "t", "i", "c", "-", "C", "-", "C", ".", "t", "x", "t">>
\* 'analysis_light_aromatic-methoxyl.txt'
ExclMethoxyl ==
    <<"a", "n", "a", "l", "y", "s", "i", "s", "_", "l", "i", "g", "h", "t", "_", "a", "r", "o", "m", "a", "t", "i", "c", "-", "m", "e", "t", "h", "o", "x", "y", "l", ".", "t", "x", "t">>
Excluded == {ExclCC, ExclMethoxyl}

\* '.txt'
DotTxt == <<".", "t", "x", "t">>
\* 'rxn' and 'k'
Rxn == <<"r", "x", "n">>
K == <<"k">>

\* the slice filename[9:]
PrefixLen == 9

ColParameter == <<"P", "a", "r", "a", "m", "e", "t", "e", "r">>
ColS1 == <<"S", "1">>
ColS1conf == <<"S", "1", "_", "c", "o", "n", "f">>
ColST == <<"S", "T">>
ColSTconf == <<"S", "T", "_", "c", "o", "n", "f">>
ColParameter1 == <<"P", "a", "r", "a", "m", "e", "t", "e", "r", "_", "1">>
ColParameter2 == <<"P", "a", "r", "a", "m", "e", "t", "e", "r", "_", "2">>
ColS2 == <<"S", "2">>
ColS2conf == <<"S", "2", "_", "c", "o", "n", "f">>

\* filename.startswith('a')
StartsWithA(fn) == StartsWith(fn, <<"a">>)

\* filename[9:].replace('.txt', '')
Identifier(fn) == ReplaceAll(DropFirst(fn, PrefixLen), DotTxt, <<>>, FALSE)

\* CanRemove as a removal that tolerates a missing name
CanRemoveMissingIgnored(fs, x) == TRUE

\* list.remove(x) raises ValueError when x is not in the list
CanRemove(fs, x) == x \in fs

DictSet(d, k, v) == [n \in DOMAIN d \cup {k} |-> IF n = k THEN v ELSE d[n]]

---------------------------------------------------------------------------
(* get_sa: the blank line scan, the two tables and the fixups *)

\* for i, line in enumerate(contents[0]): k is the index of the next line,
\* cur the value `i` holds (the enclosing loop's index before the first line)
RECURSIVE ScanLoop(_, _, _)
ScanLoop(lines, k, cur) ==
    IF k >= Len(lines) THEN cur
    ELSE IF lines[k + 1] = Blank THEN k
    ELSE ScanLoop(lines, k + 1, 0)

\* Scan without the else branch that resets i to False
RECURSIVE ScanLoopNoReset(_, _, _)
ScanLoopNoReset(lines, k, cur) ==
    IF k >= Len(lines) THEN cur
    ELSE IF lines[k + 1] = Blank THEN k
    ELSE ScanLoopNoReset(lines, k + 1, k)

ScanNoReset(lines, i0) == ScanLoopNoReset(lines, 0, i0)

Scan(lines, i0) == ScanLoop(lines, 0, i0)

\* NRowsFirst without the header line taken off
NRowsFirstOffByOne(n) == n

\* nrows=(i - 1)
NRowsFirst(n) == n - 1

\* read_csv raises for one of the tables of the branch `n` selects
ParseRaises(lines, n) ==
    IF n # 0 THEN CsvEmpty(lines, 0) \/ CsvEmpty(lines, n)
    ELSE CsvEmpty(lines, 0)

\* the list stored in sens[name]
ParseTables(lines, n) ==
    IF n # 0
    THEN <<ReadCsv(lines, 0, NRowsFirst(n)), ReadCsv(lines, n, NoLimit)>>
    ELSE <<ReadCsv(lines, 0, NoLimit), NoFrame>>

\* df.ix[df[c] < 0, c] = 0, on one value
ClampValue(v) == IF Num(v) < 0 THEN Zero ELSE v

\* sens[name][0].ix[sens[name][0]['S1'] < 0, 'S1'] = 0
ClampFirst(df) ==
    SetCol(df, ColS1, [j \in 1..Len(df.rows) |-> ClampValue(Column(df, ColS1)[j])])

\* ClampSecond with the statement for the second table left out
ClampSecondSkipped(df) == df

\* the guarded statement for sens[name][1]
ClampSecond(df) ==
    IF df.isDataFrame
    THEN SetCol(df, ColS2, [j \in 1..Len(df.rows) |-> ClampValue(Column(df, ColS2)[j])])
    ELSE df

\* a column the two statements index is missing: KeyError
ClampRaises(entry) ==
    \/ ~HasCol(entry[1], ColS1)
    \/ entry[2].isDataFrame /\ ~HasCol(entry[2], ColS2)

\* NormalizeName without case=False
NormalizeNameCaseSensitive(p) == ReplaceAll(p, Rxn, K, FALSE)

\* .str.replace('rxn', 'k', case=False), on one value
NormalizeName(p) == ReplaceAll(p, Rxn, K, TRUE)

\* sens[name][0].Parameter = sens[name][0].Parameter.str.replace(...)
NormalizeFirst(df) ==
    SetCol(df, ColParameter,
           [j \in 1..Len(df.rows) |-> NormalizeName(Column(df, ColParameter)[j])])

---------------------------------------------------------------------------
(* get_sa: the steps *)

NoResult == [ok |-> FALSE]

\* Raise as a handler that notes the error and goes on with the next file
RaiseSwallowed(kind) ==
    /\ pc' = "loop"
    /\ err' = kind
    /\ UNCHANGED <<dirExists, disk, filenames, todo, idx, filename, name,
                   contents, i, sens, result, opened>>

\* nothing in get_sa catches an exception: it leaves the function, whose
\* locals (sens among them) are dropped, and the caller gets no value
Raise(kind) ==
    /\ pc' = "raised"
    /\ err' = kind
    /\ UNCHANGED <<dirExists, disk, filenames, todo, idx, filename, name,
                   contents, i, sens, result, opened>>

\* filenames = [f for f in os.listdir(path) if f.startswith('a')]
ListDir ==
    /\ pc = "listdir"
    /\ IF ~dirExists THEN Raise("OSError")
       ELSE /\ filenames' = {fn \in DOMAIN disk : StartsWithA(fn)}
            /\ pc' = "remove1"
            /\ UNCHANGED <<dirExists, disk, todo, idx, filename, name,
                           contents, i, sens, result, err, opened>>
    /\ UNCHANGED rfVars

\* filenames.remove('analysis_light_aromatic-C-C.txt')
RemoveCC ==
    /\ pc = "remove1"
    /\ IF ~CanRemove(filenames, ExclCC) THEN Raise("ValueError")
       ELSE /\ filenames' = filenames \ {ExclCC}
            /\ pc' = "remove2"
            /\ UNCHANGED <<dirExists, disk, todo, idx, filename, name,
                           contents, i, sens, result, err, opened>>
    /\ UNCHANGED rfVars

\* filenames.remove('analysis_light_aromatic-methoxyl.txt'); sens = {}
RemoveMethoxyl ==
    /\ pc = "remove2"
    /\ IF ~CanRemove(filenames, ExclMethoxyl) THEN Raise("ValueError")
       ELSE /\ filenames' = filenames \ {ExclMethoxyl}
            /\ todo' = filenames'
            /\ sens' = <<>>
            /\ idx' = 0
            /\ pc' = "loop"
            /\ UNCHANGED <<dirExists, disk, filename, name, contents, i,
                           result, err, opened>>
    /\ UNCHANGED rfVars

\* the next filename (os.listdir gives the names in arbitrary order), its
\* identifier, open(), readlines() and the scan for the blank line
OpenScan ==
    /\ pc = "loop"
    /\ todo # {}
    /\ \E fn \in todo :
        IF ~disk[fn].readable THEN Raise("IOError")
        ELSE /\ filename' = fn
             /\ todo' = todo \ {fn}
             /\ idx' = idx + 1
             /\ name' = Identifier(fn)
             /\ opened' = opened \cup {fn}
             /\ contents' = disk[fn].lines
             /\ i' = Scan(disk[fn].lines, idx)
             /\ pc' = "parse"
             /\ UNCHANGED <<dirExists, disk, filenames, sens, result, err>>
    /\ UNCHANGED rfVars

\* if i: two read_csv calls, else: one and False
ParseFile ==
    /\ pc = "parse"
    /\ IF ParseRaises(disk[filename].lines, i) THEN Raise("EmptyDataError")
       ELSE /\ sens' = DictSet(sens, name, ParseTables(disk[filename].lines, i))
            /\ pc' = "clamp"
            /\ UNCHANGED <<dirExists, disk, filenames, todo, idx, filename,
                           name, contents, i, result, err, opened>>
    /\ UNCHANGED rfVars

\* Convert negative values to 0
ClampNeg ==
    /\ pc = "clamp"
    /\ IF ClampRaises(sens[name]) THEN Raise("KeyError")
       ELSE /\ sens' = [sens EXCEPT ![name] =
                            <<ClampFirst(@[1]), ClampSecond(@[2])>>]
            /\ pc' = "normalize"
            /\ UNCHANGED <<dirExists, disk, filenames, todo, idx, filename,
                           name, contents, i, result, err, opened>>
    /\ UNCHANGED rfVars

\* Change 'rxn' to 'k'
Normalize ==
    /\ pc = "normalize"
    /\ IF ~HasCol(sens[name][1], ColParameter) THEN Raise("AttributeError")
       ELSE /\ sens' = [sens EXCEPT ![name] = <<NormalizeFirst(@[1]), @[2]>>]
            /\ pc' = "loop"
            /\ UNCHANGED <<dirExists, disk, filenames, todo, idx, filename,
                           name, contents, i, result, err, opened>>
    /\ UNCHANGED rfVars

\* return sens
Return ==
    /\ pc = "loop"
    /\ todo = {}
    /\ result' = [ok |-> TRUE, sens |-> sens]
    /\ pc' = "done"
    /\ UNCHANGED <<dirExists, disk, filenames, todo, idx, filename, name,
                   contents, i, sens, err, opened>>
    /\ UNCHANGED rfVars

Next == ListDir \/ RemoveCC \/ RemoveMethoxyl \/ OpenScan \/ ParseFile
            \/ ClampNeg \/ Normalize \/ Return

---------------------------------------------------------------------------
(* get_sa: the directories it is run on *)

\* 'analysis_CO.txt', 'analysis_CO.txt.txt', 'analysis_H2.txt', 'results.csv'
NameCO == <<"a", "n", "a", "l", "y", "s", "i", "s", "_", "C", "O", ".", "t", "x", "t">>
NameCOTxtTxt == <<"a", "n", "a", "l", "y", "s", "i", "s", "_", "C", "O", ".", "t", "x", "t", ".", "t", "x", "t">>
NameH2 == <<"a", "n", "a", "l", "y", "s", "i", "s", "_", "H", "2", ".", "t", "x", "t">>
NameResults == <<"r", "e", "s", "u", "l", "t", "s", ".", "c", "s", "v">>
NamePool == {NameCO, NameCOTxtTxt, NameH2, NameResults}

Rxn1 == <<"r", "x", "n", "1">>
K2 == <<"k", "2">>
Minus1 == <<"-", "1">>
One == <<"1">>
Numerals == {Minus1, Zero, One}

Header1 == <<ColParameter, ColS1, ColS1conf, ColST, ColSTconf>>
Header2 == <<ColParameter1, ColParameter2, ColS2, ColS2conf>>
Row1(p, s1, st) == <<p, s1, Zero, st, Zero>>
Row2(p1, p2, s2) == <<p1, p2, s2, Zero>>

File(lines) == [readable |-> TRUE, lines |-> lines]
Unreadable == [readable |-> FALSE, lines |-> <<>>]

\* a file of each kind: both blocks, one block, no line at all, a first
\* block without the S1 column, and a file that cannot be opened
FileBoth ==
    File(<<Header1, Row1(Rxn1, Minus1, Minus1), Row1(K2, One, One), Blank,
           Header2, Row2(Rxn1, K2, Minus1), Row2(K2, Rxn1, One)>>)
FileFirstOnly == File(<<Header1, Row1(Rxn1, One, Minus1)>>)
FileEmpty == File(<<>>)
FileNoS1 == File(<<<<ColParameter, ColST>>, <<K2, One>>>>)
SampleFiles == {FileBoth, FileFirstOnly, FileEmpty, FileNoS1, Unreadable}

InitLocals ==
    /\ pc = "listdir"
    /\ filenames = {}
    /\ todo = {}
    /\ idx = 0
    /\ filename = <<>>
    /\ name = <<>>
    /\ contents = <<>>
    /\ i = 0
    /\ sens = <<>>
    /\ result = NoResult
    /\ err = ""
    /\ opened = {}

RfIdle ==
    /\ rf_pc = "idle"
    /\ rf_file = <<>>
    /\ rf_numrows = NoLimit
    /\ rf_drop = [isList |-> FALSE, labels |-> <<>>]
    /\ rf_df = NoFrame
    /\ rf_entry = ""
    /\ rf_result = NoResult

\* a directory holding `others` with the contents `files`, and those of the
\* two excluded files that `excl` names
Directory(others, files, excl) ==
    [fn \in others \cup excl |-> IF fn \in others THEN files[fn] ELSE FileFirstOnly]

\* any directory of at most MaxFiles files beside the excluded ones, each of
\* any kind, with or without each excluded file
SampleDirs ==
    UNION {{Directory(others, files, excl) :
                files \in [others -> SampleFiles], excl \in SUBSET Excluded} :
           others \in {S \in SUBSET NamePool : Cardinality(S) <= MaxFiles}}

S1Values == Numerals
STValues == {Minus1, One}

Rows1 == {Row1(Rxn1, s1, st) : s1 \in S1Values, st \in STValues}
\* one pair of parameters for each value of S2
Rows2 == {Row2(Rxn1, K2, Minus1), Row2(K2, Rxn1, Zero), Row2(Rxn1, Rxn1, One)}

\* a header line and m data rows
OneBlock(b1) == <<Header1>> \o b1
\* a header line, m data rows, one blank line, a header line and p data rows
TwoBlocks(b1, b2) == <<Header1>> \o b1 \o <<Blank, Header2>> \o b2

\* the files of the documented layout with at most MaxRows1 and MaxRows2 rows
LayoutFiles ==
    {OneBlock(b1) : b1 \in SeqsUpTo(Rows1, MaxRows1)}
        \cup {TwoBlocks(b1, b2) : b1 \in SeqsUpTo(Rows1, MaxRows1),
                                  b2 \in SeqsUpTo(Rows2, MaxRows2)}

Alphabet == {"r", "x", "n", "R", "X", "N", "k"}

\* the files with one parameter, of any name of at most MaxNameLen characters
NameFiles ==
    {<<Header1, Row1(p, One, One)>> : p \in SeqsUpTo(Alphabet, MaxNameLen) \ {<<>>}}

\* the two excluded files and analysis_CO.txt
SingleDirs ==
    {Directory({NameCO}, [fn \in {NameCO} |-> File(lines)], Excluded) :
        lines \in LayoutFiles \cup NameFiles}

Init ==
    /\ InitLocals
    /\ RfIdle
    /\ \/ dirExists = FALSE /\ disk = <<>>
       \/ dirExists = TRUE /\ disk \in SampleDirs \cup SingleDirs

Spec == Init /\ [][Next]_vars

---------------------------------------------------------------------------
(* read_file, get_params, get_results                                      *)
(* The code never looks inside a cell of a csv file: a cell is a string.   *)

\* the argument drop: False, or a list of column names
DropFalse == [isList |-> FALSE, labels |-> <<>>]
DropList(labels) == [isList |-> TRUE, labels |-> labels]

\* get_params' default, drop=['End_time', 'Oxygen']
DefaultParamsDrop == DropList(<<"End_time", "Oxygen">>)
\* get_results' default, the two unused functional groups
DefaultResultsDrop ==
    DropList(<<"light_aromatic_C-C", "light_aromatic_methoxyl">>)
\* read_file's default, drop=False
DefaultReadDrop == DropFalse

\* Python's truth value of drop: False and the empty list are falsy
Truthy(drop) == drop.isList /\ drop.labels # <<>>

\* the columns df.drop(labels, axis=1) keeps, by position
KeptIdx(df, labels) ==
    SelectSeq([k \in 1..Len(df.columns) |-> k],
              LAMBDA k : \A j \in 1..Len(labels) : df.columns[k] # labels[j])

\* df.drop(labels, axis=1, inplace=True)
DropCols(df, labels) ==
    LET ks == KeptIdx(df, labels)
    IN [isDataFrame |-> TRUE,
        columns |-> [m \in 1..Len(ks) |-> df.columns[ks[m]]],
        rows |-> [j \in 1..Len(df.rows) |->
                    [m \in 1..Len(ks) |-> df.rows[j][ks[m]]]]]

\* df.drop raises for a label that is no column; False is a label no header
\* read from a file can hold
DropRaises(df, drop) ==
    \/ ~drop.isList
    \/ \E j \in 1..Len(drop.labels) : ~HasCol(df, drop.labels[j])

\* the condition of line 44, `if not drop:`
DropGuard(drop) == ~Truthy(drop)

RfRaise(kind) ==
    /\ rf_pc' = "raised"
    /\ err' = kind
    /\ UNCHANGED <<rf_file, rf_numrows, rf_drop, rf_df, rf_entry, rf_result>>

RowLimits == {NoLimit} \cup (0..MaxCsvRows)

DropArgs ==
    {DropFalse, DropList(<<>>), DefaultParamsDrop, DefaultResultsDrop,
     DropList(<<"k1">>)}

Entries == {"read_file", "get_params", "get_results"}

\* the default of drop in each signature
DefaultDrop(entry) ==
    CASE entry = "get_params" -> DefaultParamsDrop
      [] entry = "get_results" -> DefaultResultsDrop
      [] OTHER -> DefaultReadDrop

\* a call of one of the three functions with some numrows, and with drop
\* either given or left to the default; get_params and get_results hand
\* both to read_file
Call ==
    /\ rf_pc = "idle"
    /\ \E entry \in Entries, numrows \in RowLimits, given \in DropArgs,
          omitted \in BOOLEAN :
        /\ rf_entry' = entry
        /\ rf_numrows' = numrows
        /\ rf_drop' = IF omitted THEN DefaultDrop(entry) ELSE given
    /\ rf_pc' = "read"
    /\ UNCHANGED <<rf_file, rf_df, rf_result, err>>
    /\ UNCHANGED <<dirExists, disk, pc, filenames, todo, idx, filename, name,
                   contents, i, sens, result, opened>>

\* df = pd.read_csv(path, sep=sep, nrows=numrows)
RfRead ==
    /\ rf_pc = "read"
    /\ IF CsvEmpty(rf_file, 0) THEN RfRaise("EmptyDataError")
       ELSE /\ rf_df' = ReadCsv(rf_file, 0, rf_numrows)
            /\ rf_pc' = "drop"
            /\ UNCHANGED <<rf_file, rf_numrows, rf_drop, rf_entry, rf_result, err>>
    /\ UNCHANGED <<dirExists, disk, pc, filenames, todo, idx, filename, name,
                   contents, i, sens, result, opened>>

\* if not drop: df.drop(drop, axis=1, inplace=True)
RfDrop ==
    /\ rf_pc = "drop"
    /\ IF DropGuard(rf_drop)
       THEN IF DropRaises(rf_df, rf_drop) THEN RfRaise("KeyError")
            ELSE /\ rf_df' = DropCols(rf_df, rf_drop.labels)
                 /\ rf_pc' = "return"
                 /\ UNCHANGED <<rf_file, rf_numrows, rf_drop, rf_entry,
                                rf_result, err>>
       ELSE /\ rf_pc' = "return"
            /\ UNCHANGED <<rf_file, rf_numrows, rf_drop, rf_df, rf_entry,
                           rf_result, err>>
    /\ UNCHANGED <<dirExists, disk, pc, filenames, todo, idx, filename, name,
                   contents, i, sens, result, opened>>

\* return df
RfReturn ==
    /\ rf_pc = "return"
    /\ rf_result' = [ok |-> TRUE, df |-> rf_df]
    /\ rf_pc' = "done"
    /\ UNCHANGED <<rf_file, rf_numrows, rf_drop, rf_df, rf_entry, err>>
    /\ UNCHANGED <<dirExists, disk, pc, filenames, todo, idx, filename, name,
                   contents, i, sens, result, opened>>

NextRead == Call \/ RfRead \/ RfDrop \/ RfReturn

HeaderParams == <<"End_time", "Oxygen", "k1", "k2">>
HeaderResults == <<"light_aromatic_C-C", "light_aromatic_methoxyl", "CO">>
CsvHeaders == {HeaderParams, HeaderResults}
CsvCells == {"0", "1"}

\* a header line and up to MaxCsvRows data rows of as many cells
CsvFiles ==
    UNION {{<<h>> \o rows : rows \in SeqsUpTo([1..Len(h) -> CsvCells], MaxCsvRows)} :
           h \in CsvHeaders}

InitRead ==
    /\ InitLocals
    /\ dirExists = FALSE
    /\ disk = <<>>
    /\ rf_pc = "idle"
    /\ rf_file \in CsvFiles
    /\ rf_numrows = NoLimit
    /\ rf_drop = DropFalse
    /\ rf_df = NoFrame
    /\ rf_entry = ""
    /\ rf_result = NoResult

SpecRead == InitRead /\ [][NextRead]_vars
---------------------------------------------------------------------------
(* What the statements below read off a file and a result *)

Max(a, b) == IF a > b THEN a ELSE b

BlankLines(lines) == {k \in 1..Len(lines) : lines[k] = Blank}

\* the zero-based index of the first blank line
BlankIndex(lines) ==
    (CHOOSE k \in BlankLines(lines) : \A j \in BlankLines(lines) : k <= j) - 1

\* an analysis file without second order block: the header line and m >= 0
\* data rows
IsOneBlock(lines) ==
    /\ Len(lines) >= 1
    /\ BlankLines(lines) = {}
    /\ lines[1] = Header1

\* an analysis file with both blocks: the header line, m >= 0 data rows,
\* exactly one blank line, the second header line and p >= 0 data rows
IsTwoBlock(lines) ==
    /\ Cardinality(BlankLines(lines)) = 1
    /\ BlankIndex(lines) >= 1
    /\ Len(lines) >= BlankIndex(lines) + 2
    /\ lines[1] = Header1
    /\ lines[BlankIndex(lines) + 2] = Header2

\* the files get_sa takes for analysis files
Candidates == {fn \in DOMAIN disk : StartsWithA(fn)} \ Excluded

\* the entry of a file in the returned mapping
Entry(fn) == result.sens[Identifier(fn)]

\* no other file of the directory is stored under the identifier of fn
OwnIdentifier(fn) ==
    \A other \in filenames \ {fn} : Identifier(other) # Identifier(fn)

\* P(fn, entry) for the entry of every file: as the loop body leaves it
\* behind, and in the returned mapping (where the file that is stored last
\* under an identifier replaces the ones stored before it)
OfEveryEntry(P(_, _)) ==
    /\ pc = "loop" /\ filename \in opened => P(filename, sens[name])
    /\ result.ok => \A fn \in filenames : OwnIdentifier(fn) => P(fn, Entry(fn))

\* the current file has made read_csv or a fixup raise
FileFailed == pc = "raised" /\ err \in {"EmptyDataError", "KeyError", "AttributeError"}

\* the rows of df are the lines from..from+n-1 of the file (one-based), in
\* order, in every column but `rewritten`
RowsAre(df, lines, from, n, rewritten) ==
    /\ df.isDataFrame
    /\ Len(df.rows) = n
    /\ \A j \in 1..n : \A k \in 1..Len(df.columns) :
          df.columns[k] \notin rewritten => df.rows[j][k] = lines[from + j - 1][k]

CO == <<"C", "O">>

---------------------------------------------------------------------------
(* get_sa: one file *)

FirstIsBeforeBlank(fn, e) ==
    LET lines == disk[fn].lines
        bi == BlankIndex(lines)
    IN IsTwoBlock(lines) =>
        /\ e[1].columns = lines[1]
        /\ RowsAre(e[1], lines, 2, bi - 1, {ColS1, ColParameter})
        /\ e[2].columns = lines[bi + 2]
        /\ RowsAre(e[2], lines, bi + 3, Len(lines) - bi - 2, {ColS2})

\* C1: a file made of a header line, m data rows, one blank line (at index
\* K), a second header line and p data rows gives a first table of exactly
\* the m = K - 1 rows before the blank line, in file order, and a second
\* table of exactly the p rows after the second header; analysis_CO.txt is
\* stored under CO.
C1_TwoBlocks ==
    /\ OfEveryEntry(FirstIsBeforeBlank)
    /\ result.ok /\ NameCO \in filenames => CO \in DOMAIN result.sens

\* header + 3 rows, blank line, header + 2 rows: CO, 3 rows and 2 rows
C1_Witness ==
    /\ result.ok
    /\ filenames = {NameCO}
    /\ IsTwoBlock(disk[NameCO].lines)
    /\ Len(disk[NameCO].lines) = 8
    /\ BlankIndex(disk[NameCO].lines) = 4
    /\ DOMAIN result.sens = {CO}
    /\ Len(result.sens[CO][1].rows) = 3
    /\ Len(result.sens[CO][2].rows) = 2

WholeFileIsFirst(fn, e) ==
    LET lines == disk[fn].lines
    IN IsOneBlock(lines) =>
        /\ e[1].columns = lines[1]
        /\ RowsAre(e[1], lines, 2, Len(lines) - 1, {ColS1, ColParameter})
        /\ e[2] = NoFrame

\* C2: a file without a blank line is parsed whole into the first table
\* (every data row, in file order), the second element of its entry is the
\* marker False and not a table, and such a file makes nothing raise.
C2_OneBlock ==
    /\ OfEveryEntry(WholeFileIsFirst)
    /\ FileFailed => ~IsOneBlock(disk[filename].lines)

C2_Witness ==
    /\ result.ok
    /\ filenames = {NameCO}
    /\ IsOneBlock(disk[NameCO].lines)
    /\ Len(disk[NameCO].lines) = 3
    /\ Len(Entry(NameCO)[1].rows) = 2
    /\ ~Entry(NameCO)[2].isDataFrame

\* C3: no value of the columns S1 and ST of a returned first table is negative.
C3_NoNegativeIndex ==
    result.ok =>
        \A id \in DOMAIN result.sens : \A c \in {ColS1, ColST} :
            \A j \in 1..Len(result.sens[id][1].rows) :
                Num(Column(result.sens[id][1], c)[j]) >= 0

SecondIsClamped(fn, e) ==
    LET lines == disk[fn].lines
        bi == BlankIndex(lines)
    IN /\ IsTwoBlock(lines) =>
            /\ RowsAre(e[2], lines, bi + 3, Len(lines) - bi - 2, {ColS2})
            /\ \A j \in 1..Len(e[2].rows) :
                LET v == lines[bi + 2 + j][ColIndex(e[2], ColS2)]
                    w == Column(e[2], ColS2)[j]
                IN /\ Num(w) = Max(Num(v), 0)
                   /\ Num(v) >= 0 => w = v
       /\ IsOneBlock(lines) => e[2] = NoFrame

\* C9: every S2 value of a second table is max(v, 0) of the value v in the
\* file, a non-negative one unchanged, with the rows and their order kept;
\* an entry without second table keeps the marker; neither kind of file
\* makes the fixups raise.
C9_SecondClamped ==
    /\ OfEveryEntry(SecondIsClamped)
    /\ FileFailed =>
        ~IsOneBlock(disk[filename].lines) /\ ~IsTwoBlock(disk[filename].lines)

\* a negative S2 in the file is 0 in the table, beside one that is kept
C9_Witness ==
    /\ result.ok
    /\ filenames = {NameCO}
    /\ IsTwoBlock(disk[NameCO].lines)
    /\ \E j \in 1..Len(Entry(NameCO)[2].rows) :
        /\ Num(disk[NameCO].lines[BlankIndex(disk[NameCO].lines) + 2 + j][3]) < 0
        /\ Column(Entry(NameCO)[2], ColS2)[j] = Zero
    /\ \E j \in 1..Len(Entry(NameCO)[2].rows) :
        Column(Entry(NameCO)[2], ColS2)[j] = One

NamesAreNormalized(fn, e) ==
    LET lines == disk[fn].lines
    IN IsOneBlock(lines) \/ IsTwoBlock(lines) =>
        \A j \in 1..Len(e[1].rows) :
            LET p == Column(e[1], ColParameter)[j]
            IN /\ ~Contains(p, Rxn, TRUE)
               /\ ~Contains(lines[j + 1][1], Rxn, TRUE) => p = lines[j + 1][1]

\* C4: no Parameter of a first table contains "rxn" in any letter case
\* after get_sa, and a name that held none is the name of the file.
C4_NoRxnLeft ==
    /\ OfEveryEntry(NamesAreNormalized)
    /\ result.ok =>
        \A id \in DOMAIN result.sens :
            \A j \in 1..Len(result.sens[id][1].rows) :
                ~Contains(Column(result.sens[id][1], ColParameter)[j], Rxn, TRUE)

\* 'Rxn' followed by one more character has become 'k' and that character
C4_Witness ==
    /\ result.ok
    /\ filenames = {NameCO}
    /\ Len(disk[NameCO].lines) = 2
    /\ Len(disk[NameCO].lines[2][1]) = 4
    /\ SubSeq(disk[NameCO].lines[2][1], 1, 3) = <<"R", "x", "n">>
    /\ Column(Entry(NameCO)[1], ColParameter)[1] = <<"k", disk[NameCO].lines[2][1][4]>>

---------------------------------------------------------------------------
(* get_sa: the directory *)

\* 'analysis_'
AnalysisPrefix == <<"a", "n", "a", "l", "y", "s", "i", "s", "_">>

\* the files whose names start with the analysis prefix, less the excluded
Qualifying == {fn \in DOMAIN disk : StartsWith(fn, AnalysisPrefix)} \ Excluded

\* C5: the returned mapping has exactly one entry for each qualifying file.
C5_OneEntryPerFile ==
    result.ok => Cardinality(DOMAIN result.sens) = Cardinality(Qualifying)

\* a file that can be opened and parsed: a header line with the columns the
\* fixups index, and a second header with S2 when there is a second block
Parses(f) ==
    /\ f.readable
    /\ f.lines # <<>>
    /\ LET bl == BlankLines(f.lines)
           first == IF bl = {} THEN f.lines ELSE SubSeq(f.lines, 1, BlankIndex(f.lines))
           second == IF bl = {} THEN <<>> ELSE DropFirst(f.lines, BlankIndex(f.lines) + 1)
       IN /\ first # <<>>
          /\ \E k \in 1..Len(first[1]) : first[1][k] = ColS1
          /\ \E k \in 1..Len(first[1]) : first[1][k] = ColParameter
          /\ bl # {} => /\ second # <<>>
                        /\ \E k \in 1..Len(second[1]) : second[1][k] = ColS2

\* C8: get_sa hands a mapping to its caller only from its last statement,
\* and then the directory exists and every file it takes for an analysis
\* file could be opened and parsed; once it has raised, the caller holds no
\* mapping, no file the loop had not reached has been opened, and nothing
\* more happens.
C8_AllOrNothing ==
    /\ [](/\ result.ok =>
                /\ pc = "done"
                /\ dirExists
                /\ \A fn \in Candidates : Parses(disk[fn]) /\ fn \in opened
          /\ pc = "raised" => ~result.ok /\ todo \cap opened = {})
    /\ [][pc # "raised"]_vars

\* a file has been parsed into sens, another one has failed, nothing returned
C8_Witness ==
    /\ pc = "raised"
    /\ DOMAIN sens # {}
    /\ \E fn \in Candidates : ~Parses(disk[fn])
    /\ ~result.ok

BothPresent == Excluded \subseteq DOMAIN disk

\* C10: get_sa returns a mapping only when both excluded names are in the
\* directory; when one is missing it raises ValueError before any file has
\* been opened; the two excluded files are never opened.
C10_ExcludedRequired ==
    /\ result.ok => BothPresent
    /\ dirExists /\ ~BothPresent =>
        /\ opened = {}
        /\ pc \in {"listdir", "remove1", "remove2", "raised"}
        /\ pc = "raised" => err = "ValueError"
    /\ opened \cap Excluded = {}

\* an excluded name is missing beside a well-formed analysis file
C10_Witness ==
    /\ pc = "raised"
    /\ err = "ValueError"
    /\ ~BothPresent
    /\ \E fn \in Candidates : Parses(disk[fn])

---------------------------------------------------------------------------
(* read_file *)

\* C6: called with a non-empty list of column names to drop, read_file,
\* get_params and get_results return the file's remaining columns, in source
\* order, with the rows read, in source order.
C6_DropsNamedColumns ==
    rf_pc = "done" /\ rf_drop.isList /\ rf_drop.labels # <<>> =>
        /\ rf_result.ok
        /\ rf_result.df = DropCols(ReadCsv(rf_file, 0, rf_numrows), rf_drop.labels)

\* C7: called with drop=False, read_file, get_params and get_results return
\* every column of the file, in source order, and raise nothing.
C7_DropFalseKeepsAll ==
    ~rf_drop.isList /\ rf_pc \in {"done", "raised"} =>
        /\ rf_pc = "done"
        /\ rf_result.ok
        /\ rf_result.df = ReadCsv(rf_file, 0, rf_numrows)

============================================================================
